---- MODULE Spec2Model ----
(***************************************************************************)
(* BookScout (src/src/bookscout/cli.py): the canonical-ISBN resolver       *)
(* find_canonical_isbn_weighted and the orchestrator run_scrapers.         *)
(*                                                                         *)
(* Text (ISBNs, queries, URLs) is a tuple of integers, so that equality    *)
(* and str.startswith are computed on the characters.  Python's None and   *)
(* the empty string are both falsy and the code only ever tests their      *)
(* truthiness, so both are the empty tuple.                                 *)
(*                                                                         *)
(* Scores are Python floats in the code.  Here they are exact rationals,   *)
(* kept as integers in units of 1/ScoreScale.  Every score the bounded     *)
(* inputs produce is a multiple of 1/ScoreScale, and two different such    *)
(* scores differ by far more than float rounding, so a strict order of the *)
(* floats is the strict order of the rationals; only among exactly tied    *)
(* rationals may float rounding choose another of the tied identifiers.    *)
(***************************************************************************)
EXTENDS FiniteSets, Integers, Sequences, TLC

\* ------------------------------------------------------------------ bounds
\* Orchestrator: at most MaxStores requested stores, and at most MaxStubs
\* search-result items returned by all stores of one request together.
MaxStores == 2
MaxStubs == 2
\* Resolver called on its own: at most ResStores lists holding at most
\* ResStubs items together.
ResStores == 3
ResStubs == 5
\* Termination: the stores of one request list at most LiveStubs items
\* together.
LiveStubs == 1
\* Phase 2 over one or two stores that list at most MatchStubs items
\* together.
MatchStubs == 3
\* Majority vote: at most VoteLen results.
VoteLen == 4
\* Title matching: titles and queries of at most TitleLen characters.
TitleLen == 3
\* Price parsing: price strings of at most PriceLen characters.
PriceLen == 4
\* Command line: at most CliStores --store options.
CliStores == 2

\* ------------------------------------------------------------------ text
NoIsbn == << >>
IsbnA == <<9, 7, 8, 1, 4>>
IsbnX == <<9, 7, 9, 8, 2>>
Isbns == {IsbnA, IsbnX}
IsbnChoices == Isbns \cup {NoIsbn}
SelfPubPrefix == <<9, 7, 9, 8>>
TitleQuery == <<4, 4, 9>>

Truthy(text) == text # << >>

StartsWith(text, prefix) ==
    /\ Len(text) >= Len(prefix)
    /\ SubSeq(text, 1, Len(prefix)) = prefix

\* The URL a store lists for the item at a position of its search results.
\* The adapters skip links without href and build absolute URLs, so a
\* listed URL is never empty.
Url(store, position) == <<store, position>>

SearchResultItem(isbn, url) == [isbn |-> isbn, url |-> url]

\* --------------------------------------------------------------- rationals
ScoreScale == 2520 * 10
DefaultPenalty == [num |-> 3, den |-> 10]
Penalties == { [num |-> 0, den |-> 1], DefaultPenalty,
               [num |-> 1, den |-> 1], [num |-> 2, den |-> 1] }

\* 1.0 / position
PositionScore(position) == ScoreScale \div position

\* ------------------------------------------- find_canonical_isbn_weighted
\* isbn_scores is a dict: a sequence of entries in insertion order.
HasKey(table, isbn) == \E k \in 1..Len(table) : table[k].isbn = isbn

GetScore(table, isbn) ==
    IF HasKey(table, isbn)
    THEN (CHOOSE e \in {table[k] : k \in 1..Len(table)} : e.isbn = isbn).score
    ELSE 0

\* Faulty variant: the table is keyed by the ISBN without its last digit.
AddScoreShortKey(table, isbn, score) ==
    LET key == SubSeq(isbn, 1, Len(isbn) - 1)
    IN IF HasKey(table, key)
       THEN [k \in 1..Len(table) |->
               IF table[k].isbn = key
               THEN [isbn |-> key, score |-> table[k].score + score]
               ELSE table[k]]
       ELSE Append(table, [isbn |-> key, score |-> score])
\* isbn_scores[isbn] = isbn_scores.get(isbn, 0) + score
AddScore(table, isbn, score) ==
    IF HasKey(table, isbn)
    THEN [k \in 1..Len(table) |->
            IF table[k].isbn = isbn
            THEN [isbn |-> isbn, score |-> table[k].score + score]
            ELSE table[k]]
    ELSE Append(table, [isbn |-> isbn, score |-> score])

\* Faulty variant: every occurrence scores, seen_in_store is not consulted.
SkipFirstSeenTest(item, seen_in_store) == Truthy(item.isbn)
\* if item.isbn and item.isbn not in seen_in_store
CountsForScore(item, seen_in_store) ==
    Truthy(item.isbn) /\ item.isbn \notin seen_in_store

\* Faulty variant: the rank counts only the items that score, so an item
\* without ISBN or a repeated one does not push the later ones down.
RECURSIVE RankAmongScored(_, _, _, _)
RankAmongScored(table, results, position, seen_in_store) ==
    IF position > Len(results) THEN table
    ELSE LET item == results[position]
         IN IF CountsForScore(item, seen_in_store)
            THEN RankAmongScored(AddScore(table, item.isbn,
                                          PositionScore(Cardinality(seen_in_store) + 1)),
                                 results, position + 1, seen_in_store \cup {item.isbn})
            ELSE RankAmongScored(table, results, position + 1, seen_in_store)
\* The inner loop over one store's results, from `position` on.
RECURSIVE ScoreStore(_, _, _, _)
ScoreStore(table, results, position, seen_in_store) ==
    IF position > Len(results) THEN table
    ELSE LET item == results[position]
         IN IF CountsForScore(item, seen_in_store)
            THEN ScoreStore(AddScore(table, item.isbn, PositionScore(position)),
                            results, position + 1, seen_in_store \cup {item.isbn})
            ELSE ScoreStore(table, results, position + 1, seen_in_store)

\* The outer loop over the stores, from store k on.
RECURSIVE ScoreStores(_, _, _)
ScoreStores(table, store_results, k) ==
    IF k > Len(store_results) THEN table
    ELSE ScoreStores(ScoreStore(table, store_results[k], 1, {}), store_results, k + 1)

\* Faulty variant: the penalty falls on the "978" identifiers.
PenaltyOnWrongPrefix(table, penalty) ==
    IF penalty.num < penalty.den
    THEN [k \in 1..Len(table) |->
            IF StartsWith(table[k].isbn, <<9, 7, 8>>)
            THEN [isbn |-> table[k].isbn,
                  score |-> (table[k].score * penalty.num) \div penalty.den]
            ELSE table[k]]
    ELSE table
\* if self_pub_penalty < 1.0: every "9798" entry is multiplied by it.
ApplyPenalty(table, penalty) ==
    IF penalty.num < penalty.den
    THEN [k \in 1..Len(table) |->
            IF StartsWith(table[k].isbn, SelfPubPrefix)
            THEN [isbn |-> table[k].isbn,
                  score |-> (table[k].score * penalty.num) \div penalty.den]
            ELSE table[k]]
    ELSE table

\* Faulty variant: min instead of max.
MinKey(table) ==
    LET k == CHOOSE i \in 1..Len(table) :
                /\ \A j \in 1..Len(table) : table[j].score >= table[i].score
                /\ \A j \in 1..(i - 1) : table[j].score > table[i].score
    IN table[k].isbn
\* max(isbn_scores, key=isbn_scores.get): the first key, in insertion
\* order, whose score no other key exceeds.
MaxKey(table) ==
    LET k == CHOOSE i \in 1..Len(table) :
                /\ \A j \in 1..Len(table) : table[j].score <= table[i].score
                /\ \A j \in 1..(i - 1) : table[j].score < table[i].score
    IN table[k].isbn

\* The score table as it stands when the function returns.
ScoreTable(store_results, penalty) ==
    LET raw == ScoreStores(<< >>, store_results, 1)
    IN IF raw = << >> THEN raw ELSE ApplyPenalty(raw, penalty)

\* Faulty variant: a best score of 0 is taken for "no identifier".
NoneWhenBestIsZero(table) ==
    IF table = << >> \/ GetScore(table, MaxKey(table)) = 0 THEN NoIsbn
    ELSE MaxKey(table)
\* The returned value: None (NoIsbn) when the table is empty.
PickCanonical(table) ==
    IF table = << >> THEN NoIsbn ELSE MaxKey(table)

find_canonical_isbn_weighted(store_results, penalty) ==
    PickCanonical(ScoreTable(store_results, penalty))

\* ------------------------------------------------------- adapter outcomes
\* What awaiting get_search_results(query) can produce: a list of items,
\* None, or a raised Exception.  "pending" is a task that has not settled.
Returned(items) == [kind |-> "list", items |-> items]
ReturnedNone == [kind |-> "None", items |-> << >>]
RaisedInSearch == [kind |-> "Exception", items |-> << >>]
PendingSearch == [kind |-> "pending", items |-> << >>]

\* What awaiting search, search_isbn or get_product_details can produce: a
\* BookResult, None, or a raised Exception.  A BookResult is identified by
\* the store that produced it and by the call that it answers.
BookResult(store, op, arg) == [kind |-> "BookResult", store |-> store, op |-> op, arg |-> arg]
None == [kind |-> "None", store |-> "", op |-> "", arg |-> << >>]
RaisedException == [kind |-> "Exception", store |-> "", op |-> "", arg |-> << >>]
Pending == [kind |-> "pending", store |-> "", op |-> "", arg |-> << >>]
FinalKinds == {"BookResult", "None", "Exception"}

Call(op, arg) == [op |-> op, arg |-> arg]

\* What one finished run returned, kept to compare a second run with it.
NoPrev == [ran |-> FALSE, processed |-> << >>, canonical_isbn |-> << >>,
           store_search_results |-> << >>]

\* class Store, in declaration order: list(Store).
AllStores == <<"blackwells", "kennys", "libristo", "wordery">>

\* ------------------------------------------------------------ input sets
RECURSIVE IsbnListsOfLen(_)
IsbnListsOfLen(n) ==
    IF n = 0 THEN { << >> }
    ELSE { Append(l, c) : l \in IsbnListsOfLen(n - 1), c \in IsbnChoices }

IsbnLists(budget) == UNION { IsbnListsOfLen(n) : n \in 0..budget }

\* The items of store number `store` carrying the given ISBNs, best first.
Items(store, isbns) ==
    IF isbns = << >> THEN << >>
    ELSE [p \in 1..Len(isbns) |-> SearchResultItem(isbns[p], Url(store, p))]

\* The per-store lists with lens[i] items in store i's list, item p of
\* store i carrying the ISBN isbns[<<i, p>>].
StoreResultsOf(lens, isbns) ==
    [i \in DOMAIN lens |-> Items(i, [p \in 1..lens[i] |-> isbns[<<i, p>>]])]

RECURSIVE SumOf(_, _)
SumOf(lens, n) == IF n = 0 THEN 0 ELSE lens[n] + SumOf(lens, n - 1)

\* Every way store number `store` can answer get_search_results with at
\* most `budget` items.
SearchOutcomes(store, budget) ==
    { Returned(Items(store, l)) : l \in IsbnLists(budget) }
        \cup {ReturnedNone, RaisedInSearch}

\* ------------------------------------------------------------------ state
VARIABLES
    isbn_mode,            \* run_scrapers argument
    validate_isbn,        \* run_scrapers argument
    stores,               \* run_scrapers argument: the requested stores
    cand,                 \* environment: how each store answers get_search_results
    final,                \* environment: how each store's final-stage call ends
    faulty,               \* environment: the store whose get_search_results is made to raise (0: none)
    prev,                 \* what the previous run over the same environment returned
    pc,                   \* where run_scrapers is
    browser,              \* "none", "open", "closed"
    search_tasks,         \* phase-1 gather: "none", "running", "settled" per store
    search_results,       \* phase-1 gather: what each task settled with
    tasks,                \* final-stage gather (tasks / detail_tasks)
    results,              \* final-stage gather: what each task settled with
    order,                \* completion order of the tasks of the running gather
    store_search_results, \* the collected per-store lists
    canonical_isbn,       \* the resolver's return value
    isbn_scores,          \* the resolver's score table at its return
    self_pub_penalty,     \* the resolver's penalty argument
    calls,                \* per store, the adapter calls issued, in order
    processed,            \* run_scrapers' return value
    raised,               \* an exception leaves run_scrapers
    history,              \* the orchestrator states entered, in order
    isbns,                \* find_canonical_isbn argument
    title,                \* title_matches_query argument
    title_query,          \* title_matches_query argument `query`
    threshold,            \* title_matches_query argument
    matches,              \* title_matches_query return value
    price_str,            \* parse_price argument
    parsed,               \* parse_price return value
    cli_isbn,             \* search command: the --isbn option
    cli_query,            \* search command: the title argument
    cli_store,            \* search command: the --store options
    search_query,         \* search command: the query handed to run_scrapers
    exit_code             \* search command: typer.Exit code ("none": no exit)

vars == <<isbn_mode, validate_isbn, stores, cand, final, faulty, prev, pc, browser, search_tasks,
          search_results, tasks, results, order, store_search_results, canonical_isbn,
          isbn_scores, self_pub_penalty, calls, processed, raised, history,
          isbns, title, title_query, threshold, matches, price_str, parsed,
          cli_isbn, cli_query, cli_store, search_query, exit_code>>

\* The arguments and results of the functions called on their own, and of
\* the search command.
standalone == <<isbns, title, title_query, threshold, matches, price_str, parsed>>
cli == <<cli_isbn, cli_query, cli_store, search_query, exit_code>>

args == <<isbn_mode, validate_isbn, stores, self_pub_penalty>>
environment == <<cand, final, faulty, prev>>
inputs == <<args, environment>>

N == Len(stores)
Adapters == 1..N
query ==
    IF search_query # << >> THEN search_query
    ELSE IF isbn_mode THEN IsbnA ELSE TitleQuery

Fill(value) == [i \in Adapters |-> value]

\* ------------------------------------------------ asyncio.gather semantics
\* Faulty variant: the await resumes as soon as one task has settled.
ResumeOnFirstSettled(status) ==
    \/ \A i \in DOMAIN status : status[i] = "settled"
    \/ \E i \in DOMAIN status : status[i] = "settled"
\* Faulty variant: the await gives up on the last task still running.
GiveUpOnLast(status) ==
    \A i, j \in DOMAIN status : (status[i] # "settled" /\ status[j] # "settled") => i = j
\* `await asyncio.gather(...)` resumes when every task has settled.
AllSettled(status) == \A i \in DOMAIN status : status[i] = "settled"

\* Faulty variant: return_exceptions is not honoured, any exception makes
\* the await raise.
RaisesAlways(values, return_exceptions) ==
    \E i \in DOMAIN values : values[i].kind = "Exception"
\* Without return_exceptions the first task that raises makes the await
\* raise at once, the other tasks still running; with it, an exception is
\* a value like any other.
GatherRaises(values, return_exceptions) ==
    /\ ~return_exceptions
    /\ \E i \in DOMAIN values : values[i].kind = "Exception"

\* Faulty variant: the values come in the order of completion.
InCompletionOrder(values, completion) ==
    [k \in DOMAIN values |->
        IF k <= Len(completion) THEN values[completion[k]] ELSE values[k]]
\* gather returns the values in the order of the awaitables passed to it,
\* whatever the order of completion.
GatherValues(values, completion) == values

\* ------------------------------------------------------------ run_scrapers
\* Faulty variant: the exception object is appended as it is.
KeepException(r) == r
\* processed.append(None) if isinstance(r, Exception) else processed.append(r)
AbsorbException(r) == IF r.kind = "Exception" THEN None ELSE r

\* store_search_results.append([]) if isinstance(result, Exception) or not result
\* else store_search_results.append(result)
CollectSearchResult(result) ==
    IF result.kind # "list" \/ result.items = << >> THEN << >> ELSE result.items

\* Faulty variant: the loop has no break, the last matching item wins.
LastMatchingUrl(search_items, isbn) ==
    IF \E p \in 1..Len(search_items) : search_items[p].isbn = isbn
    THEN LET p == CHOOSE q \in 1..Len(search_items) :
                     /\ search_items[q].isbn = isbn
                     /\ \A r \in (q + 1)..Len(search_items) : search_items[r].isbn # isbn
         IN search_items[p].url
    ELSE << >>
\* Faulty variant: a failed or empty search appends nothing, so the lists
\* of the stores after it move up.
SkipFailed(values) ==
    LET kept == SelectSeq(values, LAMBDA r : r.kind = "list" /\ r.items # << >>)
    IN [k \in 1..Len(kept) |-> kept[k].items]
\* The loop `for result in search_results:` - one append per result, in
\* the order of the results.
CollectAll(values) == [i \in DOMAIN values |-> CollectSearchResult(values[i])]

\* fetch_details, up to its await: the first item whose ISBN is the canonical
\* one gives matching_url (None, here the empty text, when there is none).
MatchingUrl(search_items, isbn) ==
    IF \E p \in 1..Len(search_items) : search_items[p].isbn = isbn
    THEN LET p == CHOOSE q \in 1..Len(search_items) :
                     /\ search_items[q].isbn = isbn
                     /\ \A r \in 1..(q - 1) : search_items[r].isbn # isbn
         IN search_items[p].url
    ELSE << >>

\* Faulty variant: the lookup is made with the query, not the identifier.
LookupWithQuery(search_items, isbn) ==
    IF Truthy(MatchingUrl(search_items, isbn))
    THEN Call("get_product_details", MatchingUrl(search_items, isbn))
    ELSE Call("search_isbn", TitleQuery)
\* Faulty variant: a store with no search items is not asked anything.
GiveUpWhenNothingListed(search_items, isbn) ==
    IF search_items = << >> THEN Call("none", << >>)
    ELSE IF Truthy(MatchingUrl(search_items, isbn))
         THEN Call("get_product_details", MatchingUrl(search_items, isbn))
         ELSE Call("search_isbn", isbn)
\* get_product_details(matching_url) if matching_url is truthy,
\* search_isbn(isbn) otherwise.
FetchDetailsCall(search_items, isbn) ==
    IF Truthy(MatchingUrl(search_items, isbn))
    THEN Call("get_product_details", MatchingUrl(search_items, isbn))
    ELSE Call("search_isbn", isbn)

\* Faulty variant: no else, a task that fetched the matched URL goes on to
\* look the identifier up as well.
FallThroughToLookup(search_items, isbn) ==
    IF Truthy(MatchingUrl(search_items, isbn))
    THEN << Call("get_product_details", MatchingUrl(search_items, isbn)),
            Call("search_isbn", isbn) >>
    ELSE << Call("search_isbn", isbn) >>
\* The adapter calls one fetch_details task issues: the one call of the
\* branch taken; the except clause returns None and tries nothing else.
TaskCalls(search_items, isbn) == << FetchDetailsCall(search_items, isbn) >>

\* Faulty variant: no try/except around the adapter call.
FetchDetailsNoExcept(outcome) == outcome
\* fetch_details, from its await on: except Exception: return None
FetchDetailsReturn(outcome) == IF outcome.kind = "Exception" THEN None ELSE outcome

\* Faulty variant: every store is matched against the first store's items.
ItemsOfFirstStore(lists, i) == lists[1]
\* fetch_details(scraper, store_search_results[i], canonical_isbn)
SearchItemsOf(lists, i) == lists[i]

\* Faulty variant: each task looks for the identifier its own store ranks
\* first, when it lists one.
OwnBestIsbn(search_items, isbn) ==
    IF search_items # << >> /\ Truthy(search_items[1].isbn)
    THEN search_items[1].isbn
    ELSE isbn
\* The `isbn` parameter of fetch_details: every task is created with the
\* value canonical_isbn has at line 191; neither is assigned again.
TaskIsbn(search_items, isbn) == isbn

\* Faulty variant: phase 2 is entered whatever the resolver returned.
AlwaysPhase2(isbn) == TRUE
\* if canonical_isbn:
EntersPhase2(isbn) == Truthy(isbn)

\* Faulty variant: validate_isbn is ignored, a title search goes straight
\* to the plain search.
IgnoreValidate(isbn, validate) ==
    IF isbn THEN "isbn_direct" ELSE "direct"
\* Faulty variant: a title search is always validated.
ValidateAlways(isbn, validate) ==
    IF isbn THEN "isbn_direct" ELSE "two_phase"
\* Faulty variant: validate_isbn is tested before isbn_mode.
ValidateFirst(isbn, validate) ==
    IF validate THEN "two_phase" ELSE IF isbn THEN "isbn_direct" ELSE "direct"
\* The branch run_scrapers takes: `if isbn_mode:` comes first and returns,
\* then `if validate_isbn:`, then the plain search.
Mode(isbn, validate) ==
    IF isbn THEN "isbn_direct" ELSE IF validate THEN "two_phase" ELSE "direct"

\* The environment.  A store's behaviour is chosen when it is first
\* observed and is the same from then on: cand[i] is what store i's
\* get_search_results(query) does, final[i] how its final-stage call ends.
\* The stores of one request list at most MaxStubs items together.
StubsListed == LET RECURSIVE Sum(_)
                   Sum(i) == IF i = 0 THEN 0 ELSE Len(cand[i].items) + Sum(i - 1)
               IN Sum(Len(cand))

\* What store i's adapter answers to the call it was last given, when that
\* call ends the way `kind` says.
AdapterOutcome(i, kind) ==
    LET call == calls[i][Len(calls[i])]
    IN IF call.op = "none" \/ kind = "None" THEN None
       ELSE IF kind = "BookResult" THEN BookResult(stores[i], call.op, call.arg)
       ELSE RaisedException

\* async with async_playwright() as p: browser = await p.chromium.launch(...)
\* scrapers = [SCRAPER_MAP[store](browser) for store in stores]
Launch ==
    /\ pc = "init"
    /\ browser' = "open"
    /\ pc' = "launched"
    /\ UNCHANGED <<cli, standalone, inputs, search_tasks, search_results, tasks, results, order,
                   store_search_results, canonical_isbn, isbn_scores, calls,
                   processed, raised, history>>

\* One final-stage task per scraper, in scraper order, all calling `op(arg)`.
DispatchAll(op, arg, state) ==
    /\ tasks' = Fill("running")
    /\ results' = Fill(Pending)
    /\ order' = << >>
    /\ calls' = [i \in Adapters |-> Append(calls[i], Call(op, arg))]
    /\ pc' = state
    /\ history' = Append(history, state)

\* if isbn_mode: tasks = [scraper.search_isbn(query) for scraper in scrapers]
DispatchIsbn ==
    /\ pc = "launched"
    /\ Mode(isbn_mode, validate_isbn) = "isbn_direct"
    /\ DispatchAll("search_isbn", query, "isbn_direct")
    /\ UNCHANGED <<cli, standalone, inputs, browser, search_tasks, search_results,
                   store_search_results, canonical_isbn, isbn_scores, processed, raised>>

\* if validate_isbn: search_tasks = [scraper.get_search_results(query) ...]
DispatchPhase1 ==
    /\ pc = "launched"
    /\ Mode(isbn_mode, validate_isbn) = "two_phase"
    /\ search_tasks' = Fill("running")
    /\ search_results' = Fill(PendingSearch)
    /\ order' = << >>
    /\ calls' = [i \in Adapters |-> Append(calls[i], Call("get_search_results", query))]
    /\ pc' = "phase1"
    /\ history' = Append(history, "phase1")
    /\ UNCHANGED <<cli, standalone, inputs, browser, tasks, results, store_search_results,
                   canonical_isbn, isbn_scores, processed, raised>>

\* not isbn_mode and not validate_isbn: straight to
\* tasks = [scraper.search(query) for scraper in scrapers]
DispatchDirect ==
    /\ pc = "launched"
    /\ Mode(isbn_mode, validate_isbn) = "direct"
    /\ DispatchAll("search", query, "fallback")
    /\ UNCHANGED <<cli, standalone, inputs, browser, search_tasks, search_results,
                   store_search_results, canonical_isbn, isbn_scores, processed, raised>>

\* A get_search_results task settles: it returns or raises.
SettleSearch(i) ==
    /\ pc = "phase1"
    /\ search_tasks[i] = "running"
    /\ \E outcome \in IF cand[i] = PendingSearch
                      THEN SearchOutcomes(i, MaxStubs - StubsListed)
                      ELSE {cand[i]} :
          /\ cand' = [cand EXCEPT ![i] = outcome]
          /\ search_results' = [search_results EXCEPT ![i] =
                                   IF faulty = i THEN RaisedInSearch ELSE outcome]
    /\ search_tasks' = [search_tasks EXCEPT ![i] = "settled"]
    /\ order' = Append(order, i)
    /\ UNCHANGED <<cli, standalone, args, final, faulty, prev, pc, browser, tasks, results,
                   store_search_results, canonical_isbn, isbn_scores, calls,
                   processed, raised, history>>

\* search_results = await asyncio.gather(*search_tasks, return_exceptions=True)
\* followed by the collection loop.
JoinPhase1 ==
    /\ pc = "phase1"
    /\ IF GatherRaises(search_results, TRUE)
       THEN /\ raised' = TRUE
            /\ pc' = "closing"
            /\ UNCHANGED <<store_search_results, history>>
       ELSE /\ AllSettled(search_tasks)
            /\ store_search_results' = CollectAll(GatherValues(search_results, order))
            /\ pc' = "resolving"
            /\ history' = Append(history, "resolving")
            /\ UNCHANGED raised
    /\ UNCHANGED <<cli, standalone, inputs, browser, search_tasks, search_results, tasks, results,
                   order, canonical_isbn, isbn_scores, calls, processed>>

\* canonical_isbn = find_canonical_isbn_weighted(store_search_results)
\* if canonical_isbn: detail_tasks = [fetch_details(...) ...]   (phase 2)
\* else: tasks = [scraper.search(query) for scraper in scrapers] (fallback)
Resolve ==
    /\ pc = "resolving"
    /\ LET table == ScoreTable(store_search_results, self_pub_penalty)
           isbn == find_canonical_isbn_weighted(store_search_results, self_pub_penalty)
       IN /\ isbn_scores' = table
          /\ canonical_isbn' = isbn
          /\ IF EntersPhase2(isbn)
             THEN /\ calls' = [i \in Adapters |->
                                 LET search_items == SearchItemsOf(store_search_results, i)
                                 IN calls[i] \o TaskCalls(search_items,
                                                          TaskIsbn(search_items, isbn))]
                  /\ pc' = "phase2"
                  /\ history' = Append(history, "phase2")
             ELSE /\ calls' = [i \in Adapters |-> Append(calls[i], Call("search", query))]
                  /\ pc' = "fallback"
                  /\ history' = Append(history, "fallback")
    /\ tasks' = Fill("running")
    /\ results' = Fill(Pending)
    /\ order' = << >>
    /\ UNCHANGED <<cli, standalone, inputs, browser, search_tasks, search_results,
                   store_search_results, processed, raised>>

\* A final-stage task settles.  In phase 2 the task is fetch_details, which
\* wraps the adapter call; otherwise it is the adapter call itself.
SettleFinal(i) ==
    /\ pc \in {"isbn_direct", "phase2", "fallback"}
    /\ tasks[i] = "running"
    /\ \E kind \in FinalKinds :
          /\ final[i] \in {"unset", kind}
          /\ final' = [final EXCEPT ![i] = kind]
          /\ results' = [results EXCEPT ![i] =
                            IF pc = "phase2" THEN FetchDetailsReturn(AdapterOutcome(i, kind))
                            ELSE AdapterOutcome(i, kind)]
    /\ tasks' = [tasks EXCEPT ![i] = "settled"]
    /\ order' = Append(order, i)
    /\ UNCHANGED <<cli, standalone, args, cand, faulty, prev, pc, browser, search_tasks, search_results,
                   store_search_results, canonical_isbn, isbn_scores, calls,
                   processed, raised, history>>

\* results = await asyncio.gather(*tasks, return_exceptions=True), then the
\* loop that turns exceptions into None; return processed.
JoinDirect ==
    /\ pc \in {"isbn_direct", "fallback"}
    /\ IF GatherRaises(results, TRUE)
       THEN /\ raised' = TRUE
            /\ UNCHANGED processed
       ELSE /\ AllSettled(tasks)
            /\ processed' = [i \in Adapters |-> AbsorbException(GatherValues(results, order)[i])]
            /\ UNCHANGED raised
    /\ pc' = "closing"
    /\ UNCHANGED <<cli, standalone, inputs, browser, search_tasks, search_results, tasks, results,
                   order, store_search_results, canonical_isbn, isbn_scores, calls,
                   history>>

\* processed = await asyncio.gather(*detail_tasks); return list(processed).
JoinPhase2 ==
    /\ pc = "phase2"
    /\ IF GatherRaises(results, FALSE)
       THEN /\ raised' = TRUE
            /\ UNCHANGED processed
       ELSE /\ AllSettled(tasks)
            /\ processed' = GatherValues(results, order)
            /\ UNCHANGED raised
    /\ pc' = "closing"
    /\ UNCHANGED <<cli, standalone, inputs, browser, search_tasks, search_results, tasks, results,
                   order, store_search_results, canonical_isbn, isbn_scores, calls,
                   history>>

\* Faulty variant: the function returns without closing the browser.
ReturnWithoutClose ==
    /\ pc = "closing"
    /\ pc' = "done"
    /\ history' = Append(history, "done")
    /\ order' = << >>
    /\ UNCHANGED <<cli, standalone, inputs, browser, search_tasks, search_results, tasks,
                   results, store_search_results, canonical_isbn, isbn_scores, calls,
                   processed, raised>>
\* finally: await browser.close()
Close ==
    /\ pc = "closing"
    /\ browser' = "closed"
    /\ pc' = "done"
    /\ history' = Append(history, "done")
    /\ order' = << >>
    /\ UNCHANGED <<cli, standalone, inputs, search_tasks, search_results, tasks, results,
                   store_search_results, canonical_isbn, isbn_scores, calls,
                   processed, raised>>

\* No function is being called on its own.
NoStandalone ==
    /\ isbns = << >>
    /\ title = << >>
    /\ title_query = << >>
    /\ threshold = [num |-> 1, den |-> 2]
    /\ matches = FALSE
    /\ price_str = << >>
    /\ parsed = << >>

\* run_scrapers is not called from the search command.
NoCli ==
    /\ cli_isbn = << >>
    /\ cli_query = << >>
    /\ cli_store = << >>
    /\ search_query = << >>
    /\ exit_code = -1

\* The state in which run_scrapers is entered.
StartOfRun ==
    /\ NoStandalone
    /\ NoCli
    /\ final = [i \in 1..Len(stores) |-> "unset"]
    /\ faulty = 0
    /\ prev = NoPrev
    /\ self_pub_penalty = DefaultPenalty
    /\ pc = "init"
    /\ browser = "none"
    /\ search_tasks = [i \in 1..Len(stores) |-> "none"]
    /\ search_results = [i \in 1..Len(stores) |-> PendingSearch]
    /\ tasks = [i \in 1..Len(stores) |-> "none"]
    /\ results = [i \in 1..Len(stores) |-> Pending]
    /\ order = << >>
    /\ store_search_results = << >>
    /\ canonical_isbn = NoIsbn
    /\ isbn_scores = << >>
    /\ calls = [i \in 1..Len(stores) |-> << >>]
    /\ processed = << >>
    /\ raised = FALSE
    /\ history = <<"init">>

\* run_scrapers is called: any mode, the first stores of list(Store).
Init ==
    /\ isbn_mode \in BOOLEAN
    /\ validate_isbn \in BOOLEAN
    /\ stores \in { SubSeq(AllStores, 1, n) : n \in 0..MaxStores }
    /\ cand = [i \in 1..Len(stores) |-> PendingSearch]
    /\ StartOfRun

Next ==
    \/ Launch
    \/ DispatchIsbn
    \/ DispatchPhase1
    \/ DispatchDirect
    \/ \E i \in Adapters : SettleSearch(i)
    \/ JoinPhase1
    \/ Resolve
    \/ \E i \in Adapters : SettleFinal(i)
    \/ JoinDirect
    \/ JoinPhase2
    \/ Close

Spec == Init /\ [][Next]_vars

\* The event loop runs whatever is ready: a two-phase run_scrapers call
\* takes its next step when it can, and every adapter operation that was
\* started settles.
OrchestratorStep ==
    \/ Launch
    \/ DispatchPhase1
    \/ JoinPhase1
    \/ Resolve
    \/ JoinDirect
    \/ JoinPhase2
    \/ Close

Fairness ==
    /\ WF_vars(OrchestratorStep)
    /\ WF_vars(\E i \in Adapters : SettleSearch(i))
    /\ WF_vars(\E i \in Adapters : SettleFinal(i))

\* Every way n stores can answer get_search_results with at most `budget`
\* items together.
Environments(n, budget) ==
    LET Lens == { lens \in [1..n -> 0..budget] : SumOf(lens, n) <= budget }
        Positions(lens) == UNION { { <<i, p>> : p \in 1..lens[i] } : i \in 1..n }
        \* A store that lists nothing returned [], returned None, or raised.
        Answer(items, empty) == IF items # << >> THEN Returned(items)
                                ELSE IF empty = "list" THEN Returned(<< >>)
                                ELSE IF empty = "None" THEN ReturnedNone
                                ELSE RaisedInSearch
    IN UNION { UNION { { [i \in 1..n |-> Answer(StoreResultsOf(lens, listed)[i], empty[i])] :
                           empty \in [1..n -> {"list", "None", "Exception"}] } :
                       listed \in [Positions(lens) -> IsbnChoices] } :
               lens \in Lens }

\* A two-phase run_scrapers call over stores that answer in any of these
\* ways, run to its end by the event loop.
InitLive ==
    /\ isbn_mode = FALSE
    /\ validate_isbn = TRUE
    /\ stores \in { SubSeq(AllStores, 1, n) : n \in 0..MaxStores }
    /\ cand \in Environments(Len(stores), LiveStubs)
    /\ StartOfRun

NextLive ==
    \/ Launch
    \/ DispatchPhase1
    \/ \E i \in Adapters : SettleSearch(i)
    \/ JoinPhase1
    \/ Resolve
    \/ \E i \in Adapters : SettleFinal(i)
    \/ JoinDirect
    \/ JoinPhase2
    \/ Close

SpecLive == InitLive /\ [][NextLive]_vars /\ Fairness

\* A two-phase run_scrapers call over one or two stores whose search
\* results are longer: up to MatchStubs items.
InitMatch ==
    /\ isbn_mode = FALSE
    /\ validate_isbn = TRUE
    /\ stores \in { SubSeq(AllStores, 1, n) : n \in 1..2 }
    /\ cand \in Environments(Len(stores), MatchStubs)
    /\ StartOfRun

SpecMatch == InitMatch /\ [][NextLive]_vars

\* ------------------------------------------ two runs over the same stores
\* After a two-phase run has returned, run_scrapers is called again with the
\* same arguments over the same stores, which behave as before, except that
\* store i's get_search_results, which returned a list, now raises.  The
\* runs compared are those in which every store's final call returns a
\* record: a store whose final call returns None or raises has an absent
\* slot in both runs, whatever it is asked.
Rerun(i) ==
    /\ pc = "done"
    /\ ~prev.ran
    /\ ~raised
    /\ cand[i].kind = "list"
    /\ \A j \in Adapters : final[j] = "BookResult"
    /\ prev' = [ran |-> TRUE, processed |-> processed, canonical_isbn |-> canonical_isbn,
                store_search_results |-> store_search_results]
    /\ faulty' = i
    /\ pc' = "init"
    /\ browser' = "none"
    /\ search_tasks' = Fill("none")
    /\ search_results' = Fill(PendingSearch)
    /\ tasks' = Fill("none")
    /\ results' = Fill(Pending)
    /\ order' = << >>
    /\ store_search_results' = << >>
    /\ canonical_isbn' = NoIsbn
    /\ isbn_scores' = << >>
    /\ calls' = Fill(<< >>)
    /\ processed' = << >>
    /\ history' = <<"init">>
    /\ UNCHANGED <<cli, standalone, args, cand, final, raised>>

InitPair == Init /\ ~isbn_mode /\ validate_isbn

NextPair ==
    \/ Launch
    \/ DispatchPhase1
    \/ \E i \in Adapters : SettleSearch(i)
    \/ JoinPhase1
    \/ Resolve
    \/ \E i \in Adapters : SettleFinal(i)
    \/ JoinDirect
    \/ JoinPhase2
    \/ Close
    \/ \E i \in Adapters : Rerun(i)

SpecPair == InitPair /\ [][NextPair]_vars

\* ------------------------------------------------ the resolver on its own
\* find_canonical_isbn_weighted(store_results, self_pub_penalty) is called
\* with any lists within the bounds and any of the penalties.
InitResolver ==
    /\ \E n \in 0..ResStores :
          \E lens \in [1..n -> 0..ResStubs] :
             /\ SumOf(lens, n) <= ResStubs
             /\ \E listed \in [UNION { { <<i, p>> : p \in 1..lens[i] } : i \in 1..n } -> IsbnChoices] :
                   store_search_results = StoreResultsOf(lens, listed)
    /\ self_pub_penalty \in Penalties
    /\ pc = "resolver_call"
    /\ canonical_isbn = NoIsbn
    /\ isbn_scores = << >>
    /\ isbn_mode = FALSE
    /\ validate_isbn = TRUE
    /\ stores = << >>
    /\ cand = << >>
    /\ final = << >>
    /\ faulty = 0
    /\ prev = NoPrev
    /\ browser = "none"
    /\ search_tasks = << >>
    /\ search_results = << >>
    /\ tasks = << >>
    /\ results = << >>
    /\ order = << >>
    /\ calls = << >>
    /\ processed = << >>
    /\ raised = FALSE
    /\ history = << >>
    /\ NoStandalone
    /\ NoCli

CallResolver ==
    /\ pc = "resolver_call"
    /\ isbn_scores' = ScoreTable(store_search_results, self_pub_penalty)
    /\ canonical_isbn' = find_canonical_isbn_weighted(store_search_results, self_pub_penalty)
    /\ pc' = "resolver_returned"
    /\ UNCHANGED <<cli, standalone, inputs, browser, search_tasks, search_results, tasks, results,
                   order, store_search_results, calls, processed, raised, history>>

NextResolver == CallResolver

SpecResolver == InitResolver /\ [][NextResolver]_vars

\* ---------------------------------------- functions called on their own
\* run_scrapers is not running.
NoRun ==
    /\ isbn_mode = FALSE
    /\ validate_isbn = TRUE
    /\ stores = << >>
    /\ cand = << >>
    /\ final = << >>
    /\ faulty = 0
    /\ prev = NoPrev
    /\ self_pub_penalty = DefaultPenalty
    /\ browser = "none"
    /\ search_tasks = << >>
    /\ search_results = << >>
    /\ tasks = << >>
    /\ order = << >>
    /\ store_search_results = << >>
    /\ isbn_scores = << >>
    /\ calls = << >>
    /\ processed = << >>
    /\ raised = FALSE
    /\ history = << >>

\* ------------------------------------------------- find_canonical_isbn
\* A BookResult as far as the vote reads it, and a None slot.
BookRecord(store, isbn) == [kind |-> "BookResult", store |-> store, isbn |-> isbn]
NoRecord == [kind |-> "None", store |-> "", isbn |-> << >>]

\* Counter(isbns): the counts, in the order the ISBNs are first met.
RECURSIVE CountFrom(_, _, _)
CountFrom(table, list, k) ==
    IF k > Len(list) THEN table
    ELSE CountFrom(AddScore(table, list[k], 1), list, k + 1)

Counter(list) == CountFrom(<< >>, list, 1)

\* counter.most_common(1)[0][0]: the first key with the highest count.
MostCommon(counter) == MaxKey(counter)

\* Faulty variant: the first ISBN is returned, nothing is counted.
FirstIsbn(list) == IF list = << >> THEN NoIsbn ELSE list[1]
\* if not isbns: return None; otherwise the most common one.
find_canonical_isbn(list) ==
    IF list = << >> THEN NoIsbn ELSE MostCommon(Counter(list))

\* Faulty variant: `if r` only, a record without ISBN votes with None.
KeepEveryRecord(rs) ==
    LET kept == SelectSeq(rs, LAMBDA r : r.kind = "BookResult")
    IN [k \in 1..Len(kept) |-> kept[k].isbn]
\* [r.isbn for r in results if r and r.isbn]
IsbnsOfResults(rs) ==
    LET kept == SelectSeq(rs, LAMBDA r : r.kind = "BookResult" /\ Truthy(r.isbn))
    IN [k \in 1..Len(kept) |-> kept[k].isbn]

find_canonical_isbn_from_results(rs) == find_canonical_isbn(IsbnsOfResults(rs))

\* The slots a result list can hold: None, a record without ISBN, a
\* record with one.
VoteSlots == {NoRecord, BookRecord("kennys", NoIsbn)}
                \cup { BookRecord("wordery", isbn) : isbn \in Isbns }

RECURSIVE ListsOver(_, _)
ListsOver(S, n) ==
    IF n = 0 THEN { << >> }
    ELSE LET shorter == ListsOver(S, n - 1)
         IN shorter \cup { Append(l, e) : l \in { x \in shorter : Len(x) = n - 1 }, e \in S }

\* find_canonical_isbn_from_results(results) is called on any list of at
\* most VoteLen slots.
InitVote ==
    /\ results \in ListsOver(VoteSlots, VoteLen)
    /\ pc = "vote_call"
    /\ canonical_isbn = NoIsbn
    /\ NoRun
    /\ NoCli
    /\ NoStandalone

\* isbns = [r.isbn for r in results if r and r.isbn]
ExtractIsbns ==
    /\ pc = "vote_call"
    /\ isbns' = IsbnsOfResults(results)
    /\ pc' = "vote_counting"
    /\ UNCHANGED <<cli, inputs, browser, search_tasks, search_results, tasks, results,
                   order, store_search_results, canonical_isbn, isbn_scores, calls,
                   processed, raised, history, title, title_query, threshold, matches,
                   price_str, parsed>>

\* return find_canonical_isbn(isbns)
CallVote ==
    /\ pc = "vote_counting"
    /\ canonical_isbn' = find_canonical_isbn(isbns)
    /\ pc' = "vote_returned"
    /\ UNCHANGED <<cli, standalone, inputs, browser, search_tasks, search_results, tasks,
                   results, order, store_search_results, isbn_scores, calls, processed,
                   raised, history>>

NextVote == ExtractIsbns \/ CallVote

SpecVote == InitVote /\ [][NextVote]_vars

\* ------------------------------------------------- title_matches_query
\* Titles and queries are tuples of characters: the letters a, A and b,
\* with hyphens between the words of a title and spaces between those of
\* a query.
TitleChars == {"a", "A", "b", "-"}
QueryChars == {"a", "A", "b", " "}

\* str.lower(), character by character.
LowerChar(c) == IF c = "A" THEN "a" ELSE c

Lower(text) == [k \in 1..Len(text) |-> LowerChar(text[k])]

\* \w: letters, digits and the underscore.
IsWordChar(c) == c \in {"a", "A", "b"}

\* re.findall(r"\w+", text) as a set: scan from position k with the word
\* read so far; a character that is not \w ends the word.
RECURSIVE FindWords(_, _, _)
FindWords(text, k, word) ==
    IF k > Len(text)
    THEN IF word = << >> THEN {} ELSE {word}
    ELSE IF IsWordChar(text[k])
         THEN FindWords(text, k + 1, Append(word, text[k]))
         ELSE (IF word = << >> THEN {} ELSE {word}) \cup FindWords(text, k + 1, << >>)

WordSet(text) == FindWords(text, 1, << >>)

\* Faulty variant: strictly more than the threshold is asked for.
RatioAbove(matching, total, limit) == matching * limit.den > limit.num * total
\* match_ratio >= threshold, with match_ratio = matching / total.
RatioAtLeast(matching, total, limit) == matching * limit.den >= limit.num * total

title_matches_query(t, q, limit) ==
    LET title_lower == Lower(t)
        query_lower == Lower(q)
        query_words == WordSet(query_lower)
        title_words == WordSet(title_lower)
        matching_words == query_words \cap title_words
    IN IF query_words = {} THEN TRUE
       ELSE RatioAtLeast(Cardinality(matching_words), Cardinality(query_words), limit)

\* threshold: the default 0.5, and 1.
Thresholds == { [num |-> 1, den |-> 2], [num |-> 1, den |-> 1] }

\* title_matches_query is called on any title and query of at most
\* TitleLen characters.
InitTitle ==
    /\ title \in ListsOver(TitleChars, TitleLen)
    /\ title_query \in ListsOver(QueryChars, TitleLen)
    /\ threshold \in Thresholds
    /\ matches = FALSE
    /\ isbns = << >>
    /\ price_str = << >>
    /\ parsed = << >>
    /\ pc = "title_call"
    /\ results = << >>
    /\ canonical_isbn = NoIsbn
    /\ NoRun
    /\ NoCli

CallTitleMatches ==
    /\ pc = "title_call"
    /\ matches' = title_matches_query(title, title_query, threshold)
    /\ pc' = "title_returned"
    /\ UNCHANGED <<cli, inputs, browser, search_tasks, search_results, tasks, results,
                   order, store_search_results, canonical_isbn, isbn_scores, calls,
                   processed, raised, history, isbns, title, title_query, threshold,
                   price_str, parsed>>

NextTitle == CallTitleMatches

SpecTitle == InitTitle /\ [][NextTitle]_vars

\* ------------------------------------------------------------ parse_price
\* ParsedPrice; an amount is None or a decimal fraction num / den.
NoAmount == [known |-> FALSE, num |-> 0, den |-> 1]
NoCurrency == "None"
ParsedPrice(amount, currency) == [amount |-> amount, currency |-> currency]

\* CURRENCY_MAP, in the order of the dict.
CURRENCY_MAP ==
    << [symbol |-> <<"€">>, code |-> "EUR"],
       [symbol |-> <<"£">>, code |-> "GBP"],
       [symbol |-> <<"$">>, code |-> "USD"],
       [symbol |-> <<"¥">>, code |-> "JPY"],
       [symbol |-> <<"C", "H", "F">>, code |-> "CHF"],
       [symbol |-> <<"k", "r">>, code |-> "SEK"] >>

\* The inputs the function gives up on at once.
NotAPrice == { << >>, <<"N", "/", "A">>, <<"N", "o", "t", " ", "f", "o", "u", "n", "d">>, <<"-">> }

\* sub in text
OccursAt(sub, text, k) ==
    /\ k + Len(sub) - 1 <= Len(text)
    /\ \A j \in 1..Len(sub) : text[k + j - 1] = sub[j]

Contains(text, sub) == \E k \in 1..Len(text) : OccursAt(sub, text, k)

\* str.strip()
RECURSIVE StripLeft(_)
StripLeft(text) ==
    IF text # << >> /\ Head(text) = " " THEN StripLeft(Tail(text)) ELSE text

RECURSIVE StripRight(_)
StripRight(text) ==
    IF text # << >> /\ text[Len(text)] = " "
    THEN StripRight(SubSeq(text, 1, Len(text) - 1))
    ELSE text

Strip(text) == StripRight(StripLeft(text))

\* Faulty variant: only a symbol the string starts with is recognised.
RECURSIVE CurrencyAtStart(_, _)
CurrencyAtStart(text, k) ==
    IF k > Len(CURRENCY_MAP) THEN NoCurrency
    ELSE IF OccursAt(CURRENCY_MAP[k].symbol, text, 1) THEN CURRENCY_MAP[k].code
    ELSE CurrencyAtStart(text, k + 1)
\* for symbol, code in CURRENCY_MAP.items(): the first symbol, from the
\* k-th on, that the string contains.
RECURSIVE DetectCurrency(_, _)
DetectCurrency(text, k) ==
    IF k > Len(CURRENCY_MAP) THEN NoCurrency
    ELSE IF Contains(text, CURRENCY_MAP[k].symbol) THEN CURRENCY_MAP[k].code
    ELSE DetectCurrency(text, k + 1)

\* str.replace(sub, ""), left to right.
RECURSIVE Remove(_, _)
Remove(text, sub) ==
    IF text = << >> THEN << >>
    ELSE IF OccursAt(sub, text, 1) THEN Remove(SubSeq(text, Len(sub) + 1, Len(text)), sub)
    ELSE <<Head(text)>> \o Remove(Tail(text), sub)

\* str.replace(old, new) for single characters.
ReplaceChar(text, old, new) == [k \in 1..Len(text) |-> IF text[k] = old THEN new ELSE text[k]]

\* re.sub(r"[€£$¥]", "", ...), then the two replace calls and strip.
NumericStr(text) ==
    LET symbols == SelectSeq(text, LAMBDA c : c \notin {"€", "£", "$", "¥"})
    IN Strip(Remove(Remove(symbols, <<"C", "H", "F">>), <<"k", "r">>))

\* The comma is the decimal separator, and a period beside it separates
\* thousands.
DecimalPoint(text) ==
    IF Contains(text, <<",">>) /\ Contains(text, <<".">>)
    THEN ReplaceChar(Remove(text, <<".">>), ",", ".")
    ELSE IF Contains(text, <<",">>) THEN ReplaceChar(text, ",", ".")
    ELSE text

IsDigit(c) == c = "5"

\* The digits from position k on, as far as they go.
RECURSIVE DigitsFrom(_, _)
DigitsFrom(text, k) ==
    IF k <= Len(text) /\ IsDigit(text[k]) THEN <<text[k]>> \o DigitsFrom(text, k + 1)
    ELSE << >>

RECURSIVE Power(_, _)
Power(b, n) == IF n = 0 THEN 1 ELSE b * Power(b, n - 1)

RECURSIVE Reduced(_, _)
Reduced(num, den) ==
    IF den > 1 /\ num % 10 = 0 THEN Reduced(num \div 10, den \div 10)
    ELSE [known |-> TRUE, num |-> num, den |-> den]

RECURSIVE DigitsValue(_)
DigitsValue(digits) ==
    IF digits = << >> THEN 0
    ELSE 10 * DigitsValue(SubSeq(digits, 1, Len(digits) - 1)) + 5

\* float(match.group(1)) for re.search(r"(\d+\.?\d*)", ...): the first
\* digit starts the match, which takes the digits, one period if it
\* follows, and the digits after it.
Amount(text) ==
    LET starts == { k \in 1..Len(text) : IsDigit(text[k]) }
    IN IF starts = {} THEN NoAmount
       ELSE LET first == CHOOSE k \in starts : \A j \in starts : k <= j
                whole == DigitsFrom(text, first)
                after == first + Len(whole)
                point == after <= Len(text) /\ text[after] = "."
                fraction == IF point THEN DigitsFrom(text, after + 1) ELSE << >>
            IN Reduced(DigitsValue(whole \o fraction), Power(10, Len(fraction)))

parse_price(text) ==
    IF text \in NotAPrice THEN ParsedPrice(NoAmount, NoCurrency)
    ELSE LET stripped == Strip(text)
         IN ParsedPrice(Amount(DecimalPoint(NumericStr(stripped))),
                        DetectCurrency(stripped, 1))

\* The characters of the prices tried: four currency symbols, a digit,
\* the two separators, the space and the dash.
PriceChars == {"€", "£", "$", "¥", "5", ".", ",", " ", "-"}

\* parse_price is called on any string of at most PriceLen of these
\* characters, or on one of the placeholders.
InitPrice ==
    /\ price_str \in ListsOver(PriceChars, PriceLen) \cup NotAPrice
    /\ parsed = << >>
    /\ isbns = << >>
    /\ title = << >>
    /\ title_query = << >>
    /\ threshold = [num |-> 1, den |-> 2]
    /\ matches = FALSE
    /\ pc = "price_call"
    /\ results = << >>
    /\ canonical_isbn = NoIsbn
    /\ NoRun
    /\ NoCli

CallParsePrice ==
    /\ pc = "price_call"
    /\ parsed' = parse_price(price_str)
    /\ pc' = "price_returned"
    /\ UNCHANGED <<cli, inputs, browser, search_tasks, search_results, tasks, results,
                   order, store_search_results, canonical_isbn, isbn_scores, calls,
                   processed, raised, history, isbns, title, title_query, threshold,
                   matches, price_str>>

NextPrice == CallParsePrice

SpecPrice == InitPrice /\ [][NextPrice]_vars

\* -------------------------------------------------------- search command
\* Faulty variant: a title, when given, decides the mode.
TitleWins(isbn, title_arg) ==
    IF Truthy(title_arg) THEN [search_query |-> title_arg, isbn_mode |-> FALSE, exit |-> FALSE]
    ELSE IF Truthy(isbn) THEN [search_query |-> isbn, isbn_mode |-> TRUE, exit |-> FALSE]
    ELSE [search_query |-> << >>, isbn_mode |-> FALSE, exit |-> TRUE]
\* if isbn: ... elif query: ... else: raise typer.Exit(1)
SelectMode(isbn, title_arg) ==
    IF Truthy(isbn) THEN [search_query |-> isbn, isbn_mode |-> TRUE, exit |-> FALSE]
    ELSE IF Truthy(title_arg) THEN [search_query |-> title_arg, isbn_mode |-> FALSE, exit |-> FALSE]
    ELSE [search_query |-> << >>, isbn_mode |-> FALSE, exit |-> TRUE]

\* stores = store if store else list(Store)
SelectStores(store) == IF store # << >> THEN store ELSE AllStores

\* The command is invoked with or without --isbn, with or without a
\* title, and with at most CliStores --store options, in any order.
InitCli ==
    /\ cli_isbn \in IsbnChoices
    /\ cli_query \in {<< >>, TitleQuery}
    /\ cli_store \in ListsOver({ AllStores[k] : k \in 1..Len(AllStores) }, CliStores)
    /\ search_query = << >>
    /\ exit_code = -1
    /\ pc = "cli"
    /\ results = << >>
    /\ canonical_isbn = NoIsbn
    /\ NoRun
    /\ NoStandalone

\* search(): choose the query and the mode or exit with code 1, choose the
\* stores, and enter run_scrapers(search_query, stores, isbn_mode) with
\* validate_isbn left at its default.
Search ==
    /\ pc = "cli"
    /\ LET mode == SelectMode(cli_isbn, cli_query)
       IN IF mode.exit
          THEN /\ exit_code' = 1
               /\ pc' = "exited"
               /\ UNCHANGED <<search_query, args, environment, search_tasks, search_results,
                              tasks, results, calls, history>>
          ELSE /\ search_query' = mode.search_query
               /\ isbn_mode' = mode.isbn_mode
               /\ validate_isbn' = TRUE
               /\ stores' = SelectStores(cli_store)
               /\ cand' = [i \in 1..Len(stores') |-> PendingSearch]
               /\ final' = [i \in 1..Len(stores') |-> "unset"]
               /\ search_tasks' = [i \in 1..Len(stores') |-> "none"]
               /\ search_results' = [i \in 1..Len(stores') |-> PendingSearch]
               /\ tasks' = [i \in 1..Len(stores') |-> "none"]
               /\ results' = [i \in 1..Len(stores') |-> Pending]
               /\ calls' = [i \in 1..Len(stores') |-> << >>]
               /\ history' = <<"init">>
               /\ pc' = "init"
               /\ UNCHANGED <<exit_code, faulty, prev, self_pub_penalty>>
    /\ UNCHANGED <<cli_isbn, cli_query, cli_store, standalone, browser, order,
                   store_search_results, canonical_isbn, isbn_scores, processed, raised>>

\* The command up to the first dispatch of run_scrapers.
NextCli ==
    \/ Search
    \/ Launch
    \/ DispatchIsbn
    \/ DispatchPhase1

SpecCli == InitCli /\ [][NextCli]_vars

\* ======================================================= resolver claims
\* What the claims say about scores, stated on the input lists alone.
ResolverReturned == pc = "resolver_returned"

Occurs(isbn, list) == \E p \in 1..Len(list) : list[p].isbn = isbn

PresentIsbns == { isbn \in Isbns : \E s \in 1..Len(store_search_results) :
                                      Occurs(isbn, store_search_results[s]) }

FirstPosition(isbn, list) ==
    CHOOSE p \in 1..Len(list) :
        /\ list[p].isbn = isbn
        /\ \A q \in 1..(p - 1) : list[q].isbn # isbn

\* The sum over the sources of 1/p, p the 1-based position of the
\* identifier's first occurrence in the source's list (0 if it is not there).
RECURSIVE RawTotalUpTo(_, _)
RawTotalUpTo(isbn, s) ==
    IF s = 0 THEN 0
    ELSE (IF Occurs(isbn, store_search_results[s])
          THEN ScoreScale \div FirstPosition(isbn, store_search_results[s])
          ELSE 0) + RawTotalUpTo(isbn, s - 1)

RawTotal(isbn) == RawTotalUpTo(isbn, Len(store_search_results))

LowTrust(isbn) == StartsWith(isbn, SelfPubPrefix)

\* The raw total, times the penalty multiplier for a low-trust identifier.
PenalisedTotal(isbn) ==
    IF LowTrust(isbn)
    THEN (RawTotal(isbn) * self_pub_penalty.num) \div self_pub_penalty.den
    ELSE RawTotal(isbn)

PenaltyInDocumentedRange == self_pub_penalty.num <= self_pub_penalty.den

TableIsbns == { isbn_scores[k].isbn : k \in 1..Len(isbn_scores) }

ListOf(store, listed) == Items(store, listed)

C8_Example1 == << ListOf(1, <<IsbnA, IsbnX, IsbnX>>) >>
C8_Example2 == << ListOf(1, <<IsbnA>>), ListOf(2, <<IsbnA>>), ListOf(3, <<IsbnX, IsbnX, IsbnA>>) >>
C8_Unpenalised(isbn) == ~LowTrust(isbn) \/ self_pub_penalty.num >= self_pub_penalty.den

C9_Original_AnyMultiplierApplied ==
    ResolverReturned =>
        \A isbn \in PresentIsbns : GetScore(isbn_scores, isbn) = PenalisedTotal(isbn)

\* C9 as amended: for any penalty multiplier not above 1.0, the final score
\* of every identifier starting with "9798" is its raw total times the
\* multiplier and every other identifier's score is its raw total; a
\* multiplier above 1.0 is not applied, every score stays the raw total.
\* With 0.3, X at rank 1 in two sources (0.6) loses to Y at rank 1 in one
\* source (1.0); with 1.0, X (2.0) wins.
C9_Example == << ListOf(1, <<IsbnX>>), ListOf(2, <<IsbnX>>), ListOf(3, <<IsbnA>>) >>

C9_PenaltyUpToOne ==
    ResolverReturned =>
        /\ \A isbn \in PresentIsbns :
              GetScore(isbn_scores, isbn) =
                 IF PenaltyInDocumentedRange THEN PenalisedTotal(isbn) ELSE RawTotal(isbn)
        /\ (store_search_results = C9_Example /\ self_pub_penalty = DefaultPenalty) =>
              /\ 10 * GetScore(isbn_scores, IsbnX) = 6 * ScoreScale
              /\ GetScore(isbn_scores, IsbnA) = ScoreScale
              /\ canonical_isbn = IsbnA
        /\ (store_search_results = C9_Example /\ self_pub_penalty = [num |-> 1, den |-> 1]) =>
              /\ GetScore(isbn_scores, IsbnX) = 2 * ScoreScale
              /\ canonical_isbn = IsbnX

\* C9 witness: the example under the default penalty, the penalised
\* identifier losing.
C9_Witness ==
    /\ ResolverReturned
    /\ store_search_results = C9_Example
    /\ self_pub_penalty = DefaultPenalty
    /\ canonical_isbn = IsbnA

\* C10: find_canonical_isbn_weighted returns None exactly when no item of
\* any list carries an identifier, for every penalty multiplier, 0 included.
C10_NoneIffNoIdentifier ==
    ResolverReturned =>
        (canonical_isbn = NoIsbn <=>
            \A s \in 1..Len(store_search_results) :
               \A p \in 1..Len(store_search_results[s]) :
                  store_search_results[s][p].isbn = NoIsbn)

\* C10 witness: multiplier 0 and only a low-trust identifier, whose score
\* is 0, and it is returned.
C10_Witness ==
    /\ ResolverReturned
    /\ self_pub_penalty.num = 0
    /\ PresentIsbns = {IsbnX}
    /\ GetScore(isbn_scores, IsbnX) = 0
    /\ canonical_isbn = IsbnX

\* =================================================== orchestrator claims
TwoPhase == ~isbn_mode /\ validate_isbn

\* `return processed` has been executed.
HasReturned == pc \in {"closing", "done"} /\ ~raised

LastCall(i) == calls[i][Len(calls[i])]

\* What store i's own final-stage operation produced, as a slot: the record
\* it returned, or None when it returned None or raised.
OwnOutcome(i) ==
    IF final[i] = "BookResult"
    THEN BookResult(stores[i], LastCall(i).op, LastCall(i).arg)
    ELSE None

FinalStageOps == {"get_product_details", "search_isbn", "search"}

\* C1: in every mode and for every outcome of every adapter, the returned
\* list has len(stores) slots and slot i holds the outcome of the adapter
\* built for stores[i], whatever the order in which the tasks completed.
C1_OneSlotPerStoreInOrder ==
    pc \in {"closing", "done"} =>
        /\ ~raised
        /\ Len(processed) = Len(stores)
        /\ \A i \in Adapters :
              /\ LastCall(i).op \in FinalStageOps
              /\ processed[i] = OwnOutcome(i)
              /\ processed[i].kind = "BookResult" => processed[i].store = stores[i]

\* C1 witness: the second store's task completed first, and the slots differ.
C1_Witness ==
    /\ pc = "closing" /\ ~raised
    /\ N = 2
    /\ order = <<2, 1>>
    /\ processed[1].kind = "BookResult"
    /\ processed[2] = None

\* C2: no exception of an adapter operation leaves run_scrapers, in any
\* phase and mode; an exception in an adapter's final-stage operation makes
\* that adapter's slot None, and every other adapter's slot is what its own
\* operation returned.
C2_AdapterExceptionsAbsorbed ==
    /\ ~raised
    /\ pc \in {"closing", "done"} =>
          \A i \in Adapters :
             IF final[i] = "Exception"
             THEN processed[i] = None
             ELSE processed[i] = OwnOutcome(i)

\* C2 witness: one store's get_search_results raised, the other store's
\* final-stage call raised, and the run returned the first store's record.
C2_Witness ==
    /\ pc = "done" /\ ~raised
    /\ N = 2
    /\ search_results[1] = RaisedInSearch
    /\ final[2] = "Exception"
    /\ processed[2] = None
    /\ processed[1].kind = "BookResult"

\* C3 as stated: in two-phase mode, when an adapter's get_search_results
\* raises, that adapter's slot in the result is None.
C3_Original_SlotAbsentAfterSearchError ==
    (TwoPhase /\ HasReturned) =>
        \A i \in Adapters :
           search_results[i].kind = "Exception" => processed[i] = None

\* C3 as amended: in two-phase mode, when an adapter's get_search_results
\* raises, no exception reaches the caller, the adapter's candidate list
\* is the empty list, it is given exactly one later call -
\* search_isbn(canonical) if an identifier was resolved, search(query)
\* otherwise - and its slot is that call's record, None exactly when that
\* call returned None or raised, whatever the other adapters return.
C3_SlotFollowsLaterCallAfterSearchError ==
    (TwoPhase /\ pc \in {"closing", "done"}) =>
        \A i \in Adapters :
           search_results[i].kind = "Exception" =>
              /\ ~raised
              /\ store_search_results[i] = << >>
              /\ calls[i] = << Call("get_search_results", query),
                               IF Truthy(canonical_isbn)
                               THEN Call("search_isbn", canonical_isbn)
                               ELSE Call("search", query) >>
              /\ processed[i] = OwnOutcome(i)
              /\ (processed[i] = None <=> final[i] \in {"None", "Exception"})

\* C3 witness: the first store's search raised, an identifier was resolved
\* from the other store, and the first store's slot is the record its
\* search_isbn returned.
C3_Witness ==
    /\ TwoPhase /\ HasReturned
    /\ N = 2
    /\ search_results[1].kind = "Exception"
    /\ Truthy(canonical_isbn)
    /\ processed[1] = BookResult(stores[1], "search_isbn", canonical_isbn)

\* C5: in two-phase mode no get_product_details, search_isbn or search call
\* is issued and the resolver is not evaluated until the get_search_results
\* task of every adapter has settled.
C5_SettleAllBarrier ==
    TwoPhase =>
        ((\/ pc \in {"resolving", "phase2", "fallback", "closing", "done"}
          \/ \E i \in Adapters : \E k \in 1..Len(calls[i]) : calls[i][k].op \in FinalStageOps
          \/ Len(history) > 2)
            => \A i \in Adapters : search_tasks[i] = "settled" /\ search_results[i] # PendingSearch)

\* C5 witness: phase 2 is running, one store fetching a matched URL and the
\* other looking the identifier up, after both searches settled.
C5_Witness ==
    /\ TwoPhase /\ pc = "phase2"
    /\ N = 2
    /\ \A i \in Adapters : search_tasks[i] = "settled"
    /\ \E i, j \in Adapters : /\ LastCall(i).op = "get_product_details"
                              /\ LastCall(j).op = "search_isbn"

\* No store returned an item carrying an identifier.
NoIdentifierSurfaced ==
    \A i \in Adapters :
       \A p \in 1..Len(search_results[i].items) : search_results[i].items[p].isbn = NoIsbn

\* C6: after phase 1 the orchestrator enters PHASE2 if and only if the
\* resolver returned a non-null identifier and FALLBACK otherwise; when no
\* adapter surfaced an identifier the fallback runs - one search(query) per
\* adapter, no get_product_details, no search_isbn - and the result has one
\* slot per source.
C6_Phase2IffIdentifier ==
    (TwoPhase /\ Len(history) > 2) =>
        /\ history[2] = "phase1" /\ history[3] = "resolving"
        /\ Len(history) > 3 =>
              /\ history[4] = "phase2" <=> canonical_isbn # NoIsbn
              /\ history[4] = "fallback" <=> canonical_isbn = NoIsbn
              /\ canonical_isbn = NoIsbn <=> NoIdentifierSurfaced
              /\ NoIdentifierSurfaced =>
                    /\ \A i \in Adapters :
                          calls[i] = << Call("get_search_results", query), Call("search", query) >>
                    /\ pc \in {"closing", "done"} => ~raised /\ Len(processed) = Len(stores)

\* C6 witness: a store listed an item without identifier, nothing else
\* carried one, and the run returned through the fallback.
C6_Witness ==
    /\ TwoPhase /\ pc = "done" /\ ~raised
    /\ N = 2
    /\ history = <<"init", "phase1", "resolving", "fallback", "done">>
    /\ \E i \in Adapters : search_results[i].items # << >>
    /\ Len(processed) = 2

\* C4 as stated: of two runs that differ only in adapter i's
\* get_search_results raising instead of returning its list, every other
\* adapter's slot is the same in both.
C4_Original_OtherSlotsUnchanged ==
    (pc = "done" /\ prev.ran) =>
        \A j \in Adapters \ {faulty} : processed[j] = prev.processed[j]

\* C4 as amended: of two such runs, the second returns normally as well,
\* and every other adapter's slot is the same in both runs whenever the
\* resolver returns the same canonical identifier (or None) in both;
\* adapter i's failure reaches the other slots only through the canonical
\* identifier.
C4_OtherSlotsUnchangedIfSameCanonical ==
    (pc = "done" /\ prev.ran) =>
        /\ ~raised
        /\ Len(processed) = Len(prev.processed)
        /\ \A j \in Adapters \ {faulty} :
              canonical_isbn = prev.canonical_isbn => processed[j] = prev.processed[j]

\* C4 witness: the failed store had listed the canonical identifier, the
\* other store still makes it canonical, and the other store's slot is the
\* record of the first run.
C4_Witness ==
    /\ pc = "done" /\ prev.ran /\ ~raised
    /\ N = 2
    /\ Truthy(canonical_isbn)
    /\ canonical_isbn = prev.canonical_isbn
    /\ Occurs(canonical_isbn, cand[faulty].items)
    /\ \A j \in Adapters \ {faulty} :
          processed[j].kind = "BookResult" /\ processed[j] = prev.processed[j]

\* Phase 2 has been dispatched.
Phase2Dispatched == TwoPhase /\ Len(history) > 3 /\ history[4] = "phase2"

\* C11: in phase 2, every adapter whose own candidate list holds an item
\* with the canonical identifier is given get_product_details exactly once,
\* with the URL of the first such item of its own list, and is never given
\* search_isbn.  S1 = [{A, u1}], S2 = [{A, u2}, {X, u3}] gives canonical A
\* and get_product_details(u1), get_product_details(u2).
C11_Example == << Items(1, <<IsbnA>>), Items(2, <<IsbnA, IsbnX>>) >>

C11_MatchingSourceFetchesFirstUrl ==
    Phase2Dispatched =>
        /\ \A i \in Adapters :
              Occurs(canonical_isbn, search_results[i].items) =>
                 calls[i] = << Call("get_search_results", query),
                               Call("get_product_details",
                                    search_results[i].items[
                                       FirstPosition(canonical_isbn, search_results[i].items)].url) >>
        /\ (N = 2 /\ [i \in Adapters |-> search_results[i].items] = C11_Example) =>
              /\ canonical_isbn = IsbnA
              /\ LastCall(1) = Call("get_product_details", Url(1, 1))
              /\ LastCall(2) = Call("get_product_details", Url(2, 1))

\* C11 witness: a store lists the canonical identifier at positions 2 and
\* 3, and the run returned the record fetched from the URL at position 2.
C11_Witness ==
    /\ Phase2Dispatched /\ pc = "done" /\ ~raised
    /\ \E i \in Adapters :
          /\ Len(search_results[i].items) = 3
          /\ search_results[i].items[1].isbn # canonical_isbn
          /\ search_results[i].items[2].isbn = canonical_isbn
          /\ search_results[i].items[3].isbn = canonical_isbn
          /\ processed[i] = BookResult(stores[i], "get_product_details", Url(i, 2))

\* C12: in phase 2, every adapter whose candidate list holds no item with
\* the canonical identifier - its search raised, returned nothing, or
\* listed other identifiers only - is given search_isbn exactly once, with
\* the canonical identifier, and never get_product_details; its slot is the
\* record search_isbn returned, None if it returned None or raised.  S1
\* lists A at rank 1 and S2 lists only X: canonical A, S2 is given
\* search_isbn(A).
C12_Example == << Items(1, <<IsbnA>>), Items(2, <<IsbnX>>) >>

C12_NonMatchingSourceLooksUpIdentifier ==
    Phase2Dispatched =>
        /\ \A i \in Adapters :
              ~Occurs(canonical_isbn, search_results[i].items) =>
                 /\ calls[i] = << Call("get_search_results", query),
                                  Call("search_isbn", canonical_isbn) >>
                 /\ pc \in {"closing", "done"} =>
                       /\ ~raised
                       /\ processed[i] = IF final[i] = "BookResult"
                                         THEN BookResult(stores[i], "search_isbn", canonical_isbn)
                                         ELSE None
        /\ (N = 2 /\ [i \in Adapters |-> search_results[i].items] = C12_Example) =>
              /\ canonical_isbn = IsbnA
              /\ LastCall(2) = Call("search_isbn", IsbnA)

\* C12 witness: one store lists only another identifier and its search_isbn raises, so its slot is
\* None, while the store that listed the canonical identifier returns its
\* record.
C12_Witness ==
    /\ Phase2Dispatched /\ pc = "done" /\ ~raised
    /\ N = 2
    /\ \E i, j \in Adapters :
          /\ search_results[i].items # << >>
          /\ ~Occurs(canonical_isbn, search_results[i].items)
          /\ LastCall(i) = Call("search_isbn", canonical_isbn)
          /\ final[i] = "Exception"
          /\ processed[i] = None
          /\ processed[j].kind = "BookResult"
          /\ processed[j].op = "get_product_details"

\* C13: with isbn_mode, whatever validate_isbn is, the run issues exactly
\* one search_isbn(query) per adapter and no other adapter call, never
\* evaluates the resolver, and returns one slot per adapter: the record the
\* call returned, None for each adapter whose call raised (or returned
\* None).
C13_IdentifierDirectBypassesResolution ==
    isbn_mode =>
        /\ \A k \in 1..Len(history) : history[k] \in {"init", "isbn_direct", "done"}
        /\ canonical_isbn = NoIsbn /\ isbn_scores = << >> /\ store_search_results = << >>
        /\ \A i \in Adapters :
              /\ calls[i] \in { << >>, << Call("search_isbn", query) >> }
              /\ search_tasks[i] = "none"
        /\ pc \in {"isbn_direct", "closing", "done"} =>
              \A i \in Adapters : calls[i] = << Call("search_isbn", query) >>
        /\ pc \in {"closing", "done"} =>
              /\ ~raised
              /\ Len(processed) = Len(stores)
              /\ \A i \in Adapters :
                    processed[i] = IF final[i] = "BookResult"
                                   THEN BookResult(stores[i], "search_isbn", query)
                                   ELSE None

\* C13 witness: isbn_mode together with validate_isbn; the first store's
\* search_isbn raised and the second returned its record.
C13_Witness ==
    /\ isbn_mode /\ validate_isbn
    /\ pc = "done"
    /\ N = 2
    /\ final[1] = "Exception"
    /\ processed = << None, BookResult(stores[2], "search_isbn", IsbnA) >>

\* C14: a call with an empty list of stores fails before any fan-out, it
\* does not return an empty result list: such a call never reaches its
\* `return processed`.
C14_EmptyStoresFailBeforeFanOut ==
    stores = << >> => ~(HasReturned /\ processed = << >>)

\* C15: within one request the canonical identifier is unset until the
\* resolver has run after the phase-1 barrier, is the value the resolver
\* returned, and never changes afterwards; every phase-2 task works with
\* that value - search_isbn is given it, get_product_details is given the
\* URL of an item carrying it - in whatever order the tasks settle.
C15_StateInv ==
    TwoPhase =>
        /\ pc \in {"init", "launched", "phase1", "resolving"} =>
              canonical_isbn = NoIsbn /\ \A i \in Adapters : Len(calls[i]) <= 1
        /\ pc = "resolving" => AllSettled(search_tasks)
        /\ Phase2Dispatched =>
              /\ canonical_isbn = PickCanonical(isbn_scores)
              /\ Truthy(canonical_isbn)
              /\ \A i \in Adapters :
                    /\ LastCall(i).op \in {"search_isbn", "get_product_details"}
                    /\ LastCall(i).op = "search_isbn" => LastCall(i).arg = canonical_isbn
                    /\ LastCall(i).op = "get_product_details" =>
                          \E p \in 1..Len(store_search_results[i]) :
                             /\ store_search_results[i][p].url = LastCall(i).arg
                             /\ store_search_results[i][p].isbn = canonical_isbn

C15_CanonicalComputedOnceThenImmutable ==
    /\ []C15_StateInv
    /\ [][ /\ canonical_isbn' # canonical_isbn => pc = "resolving" /\ AllSettled(search_tasks)
           /\ Phase2Dispatched => canonical_isbn' = canonical_isbn /\ calls' = calls ]_vars

\* C15 witness: the second store's phase-2 task settled before the first
\* one's; one store was asked search_isbn, the other get_product_details,
\* and the store asked search_isbn ranks another identifier first.
C15_Witness ==
    /\ Phase2Dispatched /\ pc = "closing" /\ ~raised
    /\ order = <<2, 1>>
    /\ \E i, j \in Adapters :
          /\ LastCall(i) = Call("search_isbn", canonical_isbn)
          /\ store_search_results[i] # << >>
          /\ Truthy(store_search_results[i][1].isbn)
          /\ LastCall(j).op = "get_product_details"

\* How many calls of a store's log have their operation among `ops`.
NoCall(i, ops) == \A k \in 1..Len(calls[i]) : calls[i][k].op \notin ops

AtMostOneCall(i, ops) ==
    \A k, l \in 1..Len(calls[i]) :
       (calls[i][k].op \in ops /\ calls[i][l].op \in ops) => k = l

ExactlyOneCall(i, ops) == AtMostOneCall(i, ops) /\ ~NoCall(i, ops)

\* C16: in one request every adapter is given at most one
\* get_search_results call and, once the final stage is dispatched,
\* exactly one of get_product_details, search_isbn, search; when the
\* get_product_details of a matched item raises or returns None, no
\* search_isbn follows and the adapter's slot is None.
C16_NoRetry ==
    \A i \in Adapters :
       /\ AtMostOneCall(i, {"get_search_results"})
       /\ AtMostOneCall(i, FinalStageOps)
       /\ NoCall(i, {"none"})
       /\ pc \in {"isbn_direct", "phase2", "fallback", "closing", "done"} =>
             ExactlyOneCall(i, FinalStageOps)
       /\ (/\ pc \in {"closing", "done"}
           /\ ~NoCall(i, {"get_product_details"})
           /\ final[i] \in {"None", "Exception"}) =>
             /\ NoCall(i, {"search_isbn"})
             /\ ~raised
             /\ processed[i] = None

\* C16 witness: both stores listed the canonical identifier; the first
\* store's get_product_details raised, the second's returned None, and both
\* slots are None after two calls to each store.
C16_Witness ==
    /\ pc = "done" /\ ~raised
    /\ N = 2
    /\ \A i \in Adapters : LastCall(i).op = "get_product_details" /\ Len(calls[i]) = 2
    /\ final = <<"Exception", "None">>
    /\ processed = << None, None >>

\* The collection loop of phase 1 has run.
Collected == TwoPhase /\ Len(history) > 2

\* C17: the list of lists handed to the resolver and to phase 2 has one
\* entry per adapter, in adapter order whatever the completion order;
\* entry i is the list adapter i's get_search_results returned, the empty
\* list when it raised or returned None or an empty list; a failing
\* adapter neither aborts the run nor changes the entry of any other
\* adapter: when the same stores are asked again and one of them now
\* raises, the others' entries are what they were.
C17_PhaseOneCollection ==
    Collected =>
        /\ ~raised
        /\ Len(store_search_results) = Len(stores)
        /\ \A i \in Adapters :
              /\ store_search_results[i] =
                    IF search_results[i].kind = "list" THEN search_results[i].items ELSE << >>
              /\ store_search_results[i] =
                    IF i = faulty \/ cand[i].kind # "list" THEN << >> ELSE cand[i].items
              /\ (prev.ran /\ i # faulty) =>
                    store_search_results[i] = prev.store_search_results[i]

\* C17 witness: in the second run the first store, which had listed items,
\* raised after the second store had settled, and the second store's entry
\* is its non-empty list of the first run.
C17_Witness ==
    /\ Collected /\ prev.ran /\ pc = "resolving"
    /\ N = 2
    /\ faulty = 1
    /\ order = <<2, 1>>
    /\ prev.store_search_results[1] # << >>
    /\ store_search_results[1] = << >>
    /\ store_search_results[2] # << >>
    /\ store_search_results[2] = prev.store_search_results[2]

TaskStates == {"none", "running", "settled"}

\* C18, in every state: a task that is still running means the orchestrator
\* is still awaiting the gather of its phase, whatever its siblings did;
\* the result is never assembled while a final-stage task (phase 2,
\* fallback, identifier-direct) is unsettled.
C18_StateInv ==
    /\ \A i \in Adapters :
          /\ search_tasks[i] \in TaskStates /\ tasks[i] \in TaskStates
          /\ search_tasks[i] = "running" => pc = "phase1"
          /\ tasks[i] = "running" => pc \in {"isbn_direct", "phase2", "fallback"}
    /\ pc \in {"closing", "done"} =>
          /\ ~raised
          /\ \A i \in Adapters :
                /\ tasks[i] = "settled"
                /\ results[i].kind \in FinalKinds
                /\ TwoPhase => search_tasks[i] = "settled"

\* C18: no cancellation propagation.  A dispatched task stays running
\* until it settles by itself - no step of the orchestrator or of a sibling
\* takes it out of "running" or changes what a settled task settled with -
\* and the orchestrator does not leave a phase before all its tasks settled.
C18_NoCancellation ==
    /\ []C18_StateInv
    /\ [][ \A i \in Adapters :
             /\ tasks[i] = "running" => tasks'[i] \in {"running", "settled"}
             /\ search_tasks[i] = "running" => search_tasks'[i] \in {"running", "settled"}
             /\ (tasks[i] = "running" /\ tasks'[i] = "running") => results'[i] = Pending
             /\ (tasks[i] = "settled" /\ pc' # "init") =>
                   tasks'[i] = "settled" /\ results'[i] = results[i] ]_vars

\* C18 witness: in phase 2 the first store's call has raised and the
\* second store's task is still running; the orchestrator is still waiting.
C18_Witness ==
    /\ pc = "phase2"
    /\ N = 2
    /\ tasks = <<"settled", "running">>
    /\ final[1] = "Exception"
    /\ results[1] = None
    /\ results[2] = Pending

\* The orchestrator states in the order they may be entered.
IsPrefix(a, b) == Len(a) <= Len(b) /\ SubSeq(b, 1, Len(a)) = a

C19_StateInv ==
    TwoPhase =>
        /\ \/ IsPrefix(history, <<"init", "phase1", "resolving", "phase2", "done">>)
           \/ IsPrefix(history, <<"init", "phase1", "resolving", "fallback", "done">>)
        /\ pc = "done" => Len(history) = 5

\* C19: in two-phase mode the orchestrator enters its states in the order
\* INIT, PHASE1, RESOLVING, then exactly one of PHASE2 and FALLBACK, then
\* DONE, never both and never an earlier state again; and when every
\* adapter operation settles, it reaches DONE.
C19_OrderedStatesAndTermination ==
    /\ []C19_StateInv
    /\ [][IsPrefix(history, history')]_vars
    /\ (TwoPhase => <>(pc = "done"))

\* C19 witness: a two-phase run over two stores is DONE after PHASE2.
C19_Witness ==
    /\ TwoPhase /\ pc = "done"
    /\ N = 2
    /\ history = <<"init", "phase1", "resolving", "phase2", "done">>
    /\ \A i \in Adapters : tasks[i] = "settled" /\ search_tasks[i] = "settled"

\* The plain search has been dispatched: the fallback of a two-phase run,
\* or a title search without validation.
FallbackDispatched == \E k \in 1..Len(history) : history[k] = "fallback"

\* C20: when the fallback runs, every adapter is given exactly one
\* search(query) with the original title query, whatever identifiers it
\* listed, all of them dispatched together; no get_product_details and no
\* search_isbn is issued; each adapter's slot is the record its own search
\* returned, None when it returned None or raised, whatever its siblings
\* did.
C20_FallbackSearchesEveryStore ==
    FallbackDispatched =>
        /\ ~isbn_mode /\ query = TitleQuery
        /\ canonical_isbn = NoIsbn
        /\ \A i \in Adapters :
              /\ LastCall(i) = Call("search", TitleQuery)
              /\ ExactlyOneCall(i, FinalStageOps)
              /\ tasks[i] \in {"running", "settled"}
        /\ pc \in {"closing", "done"} =>
              /\ ~raised
              /\ Len(processed) = Len(stores)
              /\ \A i \in Adapters :
                    processed[i] = IF final[i] = "BookResult"
                                   THEN BookResult(stores[i], "search", TitleQuery)
                                   ELSE None

\* C20 witness: a two-phase run fell back; the second store's search
\* raised before the first store's returned its record.
C20_Witness ==
    /\ TwoPhase /\ FallbackDispatched /\ pc = "closing"
    /\ N = 2
    /\ order = <<2, 1>>
    /\ final = <<"BookResult", "Exception">>
    /\ processed = << BookResult(stores[1], "search", TitleQuery), None >>

\* ==================================================== majority-vote claims
VoteReturned == pc = "vote_returned"

\* How often an ISBN occurs in a list of ISBNs.
Occurrences(isbn, list) == Cardinality({ k \in 1..Len(list) : list[k] = isbn })

\* C21: find_canonical_isbn returns None exactly when the list is empty;
\* otherwise it returns an ISBN of the list that no other ISBN of the list
\* outnumbers.
C21_MajorityVote ==
    VoteReturned =>
        /\ canonical_isbn = NoIsbn <=> isbns = << >>
        /\ isbns # << >> =>
              /\ \E k \in 1..Len(isbns) : isbns[k] = canonical_isbn
              /\ \A k \in 1..Len(isbns) :
                    Occurrences(isbns[k], isbns) <= Occurrences(canonical_isbn, isbns)

\* C21 witness: the majority ISBN is not the first of the list.
C21_Witness ==
    /\ VoteReturned
    /\ isbns = <<IsbnX, IsbnA, IsbnA>>
    /\ canonical_isbn = IsbnA

\* The slots that vote: records, not None, that carry an ISBN.
Voting == { k \in 1..Len(results) : results[k].kind = "BookResult" /\ results[k].isbn # NoIsbn }

Votes(isbn) == Cardinality({ k \in Voting : results[k].isbn = isbn })

\* C22: find_canonical_isbn_from_results ignores None slots and records
\* without ISBN: it returns None exactly when no record carries an ISBN,
\* and otherwise an ISBN carried by a record that no other ISBN outnumbers
\* among the records that carry one.
C22_VoteOverRecordsWithIsbn ==
    VoteReturned =>
        /\ Len(isbns) = Cardinality(Voting)
        /\ canonical_isbn = NoIsbn <=> Voting = {}
        /\ Voting # {} =>
              /\ \E k \in Voting : results[k].isbn = canonical_isbn
              /\ \A k \in Voting : Votes(results[k].isbn) <= Votes(canonical_isbn)

\* C22 witness: most slots are None or without ISBN, one record carries
\* an ISBN, and that ISBN is returned.
C22_Witness ==
    /\ VoteReturned
    /\ results = << NoRecord, BookRecord("kennys", NoIsbn), BookRecord("kennys", NoIsbn),
                    BookRecord("wordery", IsbnA) >>
    /\ canonical_isbn = IsbnA

\* ==================================================== title-match claims
\* A letter whatever its case.
Folded(c) == CASE c = "A" -> "a" [] c = "a" -> "a" [] c = "b" -> "b" [] OTHER -> c

Letter(c) == c \notin {"-", " "}

\* The words of a text: its maximal runs of letters, case folded.
WordsIn(text) ==
    { [k \in 1..(j - i + 1) |-> Folded(text[i + k - 1])] :
        <<i, j>> \in { w \in (1..Len(text)) \X (1..Len(text)) :
                         /\ w[1] <= w[2]
                         /\ \A k \in w[1]..w[2] : Letter(text[k])
                         /\ w[1] = 1 \/ ~Letter(text[w[1] - 1])
                         /\ w[2] = Len(text) \/ ~Letter(text[w[2] + 1]) } }

TitleReturned == pc = "title_returned"

\* C23: title_matches_query is True exactly when the query has no words,
\* or the share of its distinct case-folded words that are also words of
\* the title is at least the threshold; case and the punctuation between
\* words do not matter.
C23_TitleMatchesQuery ==
    TitleReturned =>
        LET asked == WordsIn(title_query)
            found == asked \cap WordsIn(title)
        IN matches <=>
             \/ asked = {}
             \/ Cardinality(found) * threshold.den >= threshold.num * Cardinality(asked)

\* C23 witness: one of the two query words is in the title, in the other
\* case, and that is just enough for the default threshold.
C23_Witness ==
    /\ TitleReturned
    /\ title_query = <<"a", " ", "b">>
    /\ title = <<"-", "A", "-">>
    /\ threshold = [num |-> 1, den |-> 2]
    /\ matches

\* ==================================================== price-parsing claims
PriceReturned == pc = "price_returned"

\* ISO code of the three symbols the claim names.
IsoCode(c) == CASE c = "€" -> "EUR" [] c = "£" -> "GBP" [] c = "$" -> "USD"

\* The symbols of the three that a string holds.
SymbolsIn(text) == { text[k] : k \in 1..Len(text) } \cap {"€", "£", "$"}

\* C24: parse_price gives no amount and no currency for "", "N/A",
\* "Not found" and "-"; for any other input that holds one of the symbols
\* €, £, $ the currency is the ISO code of a symbol the input holds
\* (EUR, GBP, USD), wherever the symbol stands.
C24_SentinelsAndCurrency ==
    PriceReturned =>
        /\ price_str \in { << >>, <<"N", "/", "A">>, <<"-">>,
                            <<"N", "o", "t", " ", "f", "o", "u", "n", "d">> }
              => parsed.amount.known = FALSE /\ parsed.currency = "None"
        /\ (price_str # <<"-">> /\ SymbolsIn(price_str) # {})
              => parsed.currency \in { IsoCode(c) : c \in SymbolsIn(price_str) }

\* C24 witness: the symbol stands after the number, with a space.
C24_Witness ==
    /\ PriceReturned
    /\ price_str = <<"5", " ", "£">>
    /\ parsed = [amount |-> [known |-> TRUE, num |-> 5, den |-> 1], currency |-> "GBP"]

\* ========================================================= timeout claims
\* C25: the core has no timeout of its own.  As long as the task of one
\* adapter stays unsettled, no step takes the orchestrator out of the
\* phase of that task - not to the resolver, not to the return - and no
\* result is assembled, whatever the other adapters' tasks have done.
C25_NoCoreTimeout ==
    [][ \A i \in Adapters :
          /\ (search_tasks[i] = "running" /\ search_tasks'[i] = "running") =>
                /\ pc' = "phase1"
                /\ history' = history
                /\ store_search_results' = << >>
                /\ processed' = << >>
          /\ (tasks[i] = "running" /\ tasks'[i] = "running") =>
                /\ pc' = pc
                /\ pc' \in {"isbn_direct", "phase2", "fallback"}
                /\ history' = history
                /\ processed' = << >> ]_vars

\* C25 witness: in phase 1 every adapter but the last has settled and the
\* orchestrator is still in phase 1, nothing collected.
C25_Witness ==
    /\ pc = "phase1"
    /\ N = 2
    /\ search_tasks = <<"settled", "running">>
    /\ search_results[1].kind = "list"
    /\ store_search_results = << >>
    /\ processed = << >>

\* ============================================= canonical identifier claims
\* C26: whenever phase 2 is entered, the canonical identifier is not
\* empty and some adapter's own phase-1 list holds an item that carries
\* it; that adapter's task starts with get_product_details, so it is
\* never every adapter that goes to the search_isbn lookup.
C26_CanonicalIsCarried ==
    Phase2Dispatched =>
        /\ canonical_isbn # NoIsbn
        /\ \E i \in Adapters :
              /\ \E p \in 1..Len(search_results[i].items) :
                    search_results[i].items[p].isbn = canonical_isbn
              /\ calls[i][2].op = "get_product_details"

\* C26 witness: phase 2 has just been dispatched; the first store listed
\* nothing and is sent to search_isbn, the second carries the canonical
\* identifier at rank 2, behind an item without identifier.
C26_Witness ==
    /\ pc = "phase2"
    /\ N = 2
    /\ tasks = <<"running", "running">>
    /\ search_results[1].items = << >>
    /\ Len(search_results[2].items) = 2
    /\ search_results[2].items[1].isbn = NoIsbn
    /\ search_results[2].items[2].isbn = canonical_isbn
    /\ calls[1][2] = Call("search_isbn", canonical_isbn)
    /\ calls[2][2] = Call("get_product_details", Url(2, 2))

\* ========================================================== rank claims
C27_Example1 == << ListOf(1, <<NoIsbn, IsbnA>>) >>
C27_Example2 == << ListOf(1, <<IsbnX, IsbnX, IsbnA>>) >>

\* The stubs of a list that stand before position p, whatever they carry.
StubsBefore(list, p) == { q \in 1..Len(list) : q < p }

\* C27: the rank p of a stub is its 1-based index in the source's list,
\* counting every stub before it - those without identifier and repeated
\* ones included.  For an identifier one source lists, not penalised, the
\* score times (number of stubs before its first occurrence + 1) is 1.
\* [no-id, A] gives A = 1/2 and [X, X, A] gives A = 1/3.
C27_RankCountsEveryStub ==
    ResolverReturned =>
        /\ Len(store_search_results) = 1 =>
              \A p \in 1..Len(store_search_results[1]) :
                 LET list == store_search_results[1]
                     isbn == list[p].isbn
                 IN (isbn # NoIsbn /\ ~LowTrust(isbn) /\ \A q \in 1..(p - 1) : list[q].isbn # isbn)
                       => GetScore(isbn_scores, isbn) * (Cardinality(StubsBefore(list, p)) + 1)
                             = ScoreScale
        /\ store_search_results = C27_Example1 => 2 * GetScore(isbn_scores, IsbnA) = ScoreScale
        /\ store_search_results = C27_Example2 => 3 * GetScore(isbn_scores, IsbnA) = ScoreScale

\* C27 witness: the first example, the item without identifier at rank 1
\* and A scored 1/2 at rank 2.
C27_Witness ==
    /\ ResolverReturned
    /\ store_search_results = C27_Example1
    /\ isbn_scores = << [isbn |-> IsbnA, score |-> ScoreScale \div 2] >>
    /\ canonical_isbn = IsbnA

\* ===================================================== browser claims
\* C28: once launched, the browser is open for as long as the run lasts
\* and is closed exactly once, by the last step of the run, on whichever
\* path the run ends (identifier-direct, phase 2, fallback, exception); it
\* is closed only when no dispatched task is unsettled, so every adapter
\* task runs against an open browser.
C28_BrowserClosedOnceAfterTasks ==
    /\ browser = "none" <=> pc = "init"
    /\ browser = "closed" <=> pc = "done"
    /\ pc = "done" =>
          /\ history[Len(history)] = "done"
          /\ \A k \in 1..(Len(history) - 1) : history[k] # "done"
          /\ history[Len(history) - 1] \in {"isbn_direct", "phase2", "fallback"} \/ raised
    /\ \A i \in Adapters :
          (search_tasks[i] = "running" \/ tasks[i] = "running") => browser = "open"
    /\ browser = "closed" =>
          \A i \in Adapters :
             /\ tasks[i] = "settled"
             /\ search_tasks[i] \in {"none", "settled"}

\* C28 witness: a run that went through phase 1 and phase 2 has returned,
\* both adapters' tasks of both phases settled, the browser closed.
C28_Witness ==
    /\ pc = "done"
    /\ browser = "closed"
    /\ N = 2
    /\ history = <<"init", "phase1", "resolving", "phase2", "done">>
    /\ search_tasks = <<"settled", "settled">>
    /\ tasks = <<"settled", "settled">>

\* ===================================================== direct-mode claims
SinglePhaseDirect == ~isbn_mode /\ ~validate_isbn

\* C29: with neither isbn_mode nor validate_isbn the run has no phase 1
\* and never evaluates the resolver: every adapter is given exactly one
\* call, search(query), and the returned list has one slot per store, slot
\* i holding what the search of stores[i] produced (None if it raised or
\* returned None).
C29_SinglePhaseDirect ==
    SinglePhaseDirect =>
        /\ \A k \in 1..Len(history) : history[k] \in {"init", "fallback", "done"}
        /\ canonical_isbn = NoIsbn /\ isbn_scores = << >> /\ store_search_results = << >>
        /\ \A i \in Adapters :
              /\ search_tasks[i] = "none"
              /\ search_results[i] = PendingSearch
              /\ calls[i] = IF pc \in {"init", "launched"} THEN << >>
                            ELSE << Call("search", query) >>
        /\ pc \in {"closing", "done"} =>
              /\ ~raised
              /\ DOMAIN processed = DOMAIN stores
              /\ \A i \in Adapters :
                    processed[i] \in { None, BookResult(stores[i], "search", query) }
                    /\ (processed[i] = None <=> final[i] # "BookResult")

\* C29 witness: a direct run over two stores has returned; the first
\* store's search returned None, the second its record.
C29_Witness ==
    /\ SinglePhaseDirect
    /\ pc = "done"
    /\ N = 2
    /\ history = <<"init", "fallback", "done">>
    /\ final = <<"None", "BookResult">>
    /\ processed = << None, BookResult(stores[2], "search", TitleQuery) >>

\* ========================================================== CLI claims
IsbnGiven == cli_isbn # << >>
TitleGiven == cli_query # << >>
Dispatched == pc \notin {"cli", "exited", "init", "launched"}

\* C30: the search command.  With --isbn the run is identifier-direct and
\* its query is the ISBN, a title given as well being ignored; with a title
\* only it is two-phase-validated; with neither the command exits with
\* code 1 and no browser, scraper or adapter call is ever made; without
\* --store the stores are blackwells, kennys, libristo, wordery in that
\* order, otherwise those given.
C30_CliModeSelection ==
    pc # "cli" =>
        /\ exit_code = 1 <=> (~IsbnGiven /\ ~TitleGiven)
        /\ exit_code = 1 =>
              /\ pc = "exited" /\ browser = "none"
              /\ stores = << >> /\ calls = << >> /\ history = << >>
        /\ exit_code # 1 =>
              /\ exit_code = -1 /\ pc # "exited"
              /\ stores = IF cli_store = << >>
                          THEN <<"blackwells", "kennys", "libristo", "wordery">>
                          ELSE cli_store
              /\ validate_isbn
              /\ isbn_mode <=> IsbnGiven
              /\ search_query = IF IsbnGiven THEN cli_isbn ELSE cli_query
              /\ Dispatched =>
                    /\ pc = IF IsbnGiven THEN "isbn_direct" ELSE "phase1"
                    /\ \A i \in DOMAIN stores :
                          calls[i] = IF IsbnGiven
                                     THEN << Call("search_isbn", cli_isbn) >>
                                     ELSE << Call("get_search_results", cli_query) >>

\* C30 witness: --isbn together with a title and no --store; the four
\* stores are each given search_isbn with the ISBN.
C30_Witness ==
    /\ cli_isbn = IsbnX /\ cli_query = TitleQuery /\ cli_store = << >>
    /\ pc = "isbn_direct"
    /\ stores = AllStores
    /\ calls = [i \in 1..4 |-> << Call("search_isbn", IsbnX) >>]

====
